---- MODULE Spec2Model ----
(***************************************************************************)
(* Super Simple Stock Market: the StockMarket / Stock / Trade engine of    *)
(* super_simple_stock_market.py as a state machine.                        *)
(*                                                                         *)
(* Numbers are exact rationals <<numerator, denominator>> in lowest terms  *)
(* with a positive denominator (the program's floats without rounding).    *)
(* Time is counted in whole minutes.  One step of the machine is one call  *)
(* of a public method, or one minute passing on the clock.                 *)
(***************************************************************************)
EXTENDS Integers, Sequences, FiniteSets

VARIABLES
    stocks,   \* StockMarket.stocks: symbol -> Stock (a dict, keys unique)
    clock,    \* what datetime.now() returns, in minutes
    ret,      \* the last call: method, arguments, time read, outcome
    before,   \* history variable: stocks as the last call found it
    earlier   \* history variable: the call before the last one, when the two
              \* are the same read with the same arguments

vars == <<stocks, clock, ret, before, earlier>>

(***************************************************************************)
(* Bounds of the model.                                                    *)
(***************************************************************************)
MaxTrades == 2          \* trades held by the market at a time
MaxClock == 6           \* minutes the clock runs
LastTradeMinute == 1    \* trades are recorded in minutes 0..LastTradeMinute

(***************************************************************************)
(* Program constant: timedelta(minutes=5).                                 *)
(***************************************************************************)
Window == 5

(***************************************************************************)
(* Rational arithmetic.                                                    *)
(***************************************************************************)
Abs(i) == IF i < 0 THEN -i ELSE i

RECURSIVE GCD(_, _)
GCD(a, b) == IF b = 0 THEN a ELSE GCD(b, a % b)

\* n/d in lowest terms, d /= 0
Norm(n, d) ==
    LET g == GCD(Abs(n), Abs(d))
        s == IF d < 0 THEN -1 ELSE 1
    IN  <<(s * n) \div g, (s * d) \div g>>

Num(i) == <<i, 1>>
Zero == Num(0)
One == Num(1)
RAdd(a, b) == Norm(a[1] * b[2] + b[1] * a[2], a[2] * b[2])
RMul(a, b) == Norm(a[1] * b[1], a[2] * b[2])
RDiv(a, b) == Norm(a[1] * b[2], a[2] * b[1])
RLe(a, b) == a[1] * b[2] <= b[1] * a[2]
RLt(a, b) == a[1] * b[2] < b[1] * a[2]

(***************************************************************************)
(* Python values.  Every outcome of a call is a record of one shape: kind  *)
(* is "real", "inf", "root", "complex", "None" or the name of the raised   *)
(* exception.  "root" with val v and deg n is the positive real v^(1/n).   *)
(***************************************************************************)
None == <<>>
Real(r) == [kind |-> "real", val |-> r, deg |-> 1]
Inf == [kind |-> "inf", val |-> Zero, deg |-> 1]
NoneVal == [kind |-> "None", val |-> Zero, deg |-> 1]
Raise(e) == [kind |-> e, val |-> Zero, deg |-> 1]
Raised(v) == v.kind \in {"ValueError", "ZeroDivisionError", "TypeError"}

\* a / b on two numbers
PyDiv(a, b) ==
    IF a = None \/ b = None THEN Raise("TypeError")
    ELSE IF b = Zero THEN Raise("ZeroDivisionError")
    ELSE Real(RDiv(a, b))

\* a * b on two numbers; None * x raises TypeError
PyMul(a, b) == IF a = None \/ b = None THEN None ELSE RMul(a, b)

\* x ** (1/n): 1/0 raises; x itself when n = 1, the n-th root of a positive x,
\* a complex number for a negative x
PyRoot(x, n) ==
    IF n = 0 THEN Raise("ZeroDivisionError")
    ELSE IF n = 1 \/ x = Zero THEN Real(x)
    ELSE IF RLt(x, Zero) THEN [kind |-> "complex", val |-> x, deg |-> n]
    ELSE [kind |-> "root", val |-> x, deg |-> n]

\* str.lower() on the indicator strings the model uses
Lower(s) ==
    CASE s = "BUY" -> "buy"
      [] s = "Buy" -> "buy"
      [] s = "SELL" -> "sell"
      [] s = "Sell" -> "sell"
      [] s = "HOLD" -> "hold"
      [] OTHER -> s

(***************************************************************************)
(* Trade and Stock.                                                        *)
(***************************************************************************)
Trade(timestamp, quantity, indicator, price) ==
    [timestamp |-> timestamp, quantity |-> quantity,
     indicator |-> indicator, price |-> price]

Stock(symbol, type, lastDividend, fixedDividend, parValue) ==
    [symbol |-> symbol, type |-> type, lastDividend |-> lastDividend,
     fixedDividend |-> fixedDividend, parValue |-> parValue, trades |-> <<>>]

\* mutant: the price check lets a price of 0 through
calculate_dividend_yield_nonneg(self, price) ==
    IF RLt(price, Zero) THEN Raise("ValueError")
    ELSE IF self.type = "Common" THEN PyDiv(self.lastDividend, price)
    ELSE IF self.type = "Preferred"
         THEN PyDiv(PyMul(self.fixedDividend, self.parValue), price)
    ELSE Raise("ValueError")

calculate_dividend_yield(self, price) ==
    IF RLe(price, Zero) THEN Raise("ValueError")
    ELSE IF self.type = "Common" THEN PyDiv(self.lastDividend, price)
    ELSE IF self.type = "Preferred"
         THEN PyDiv(PyMul(self.fixedDividend, self.parValue), price)
    ELSE Raise("ValueError")

\* mutant: no test of a zero last dividend
calculate_pe_ratio_unguarded(self, price) == PyDiv(price, self.lastDividend)

calculate_pe_ratio(self, price) ==
    IF self.lastDividend = Zero THEN Inf
    ELSE PyDiv(price, self.lastDividend)

\* mutant: the trade is put in front of the history
stock_record_trade_front(self, now, quantity, indicator, price) ==
    [self EXCEPT !.trades = <<Trade(now, quantity, indicator, price)>> \o @]

\* Stock.record_trade: the Stock after the call
stock_record_trade(self, now, quantity, indicator, price) ==
    [self EXCEPT !.trades = Append(@, Trade(now, quantity, indicator, price))]

\* sum(...) of a list of numbers, from its i-th on
RECURSIVE SumSeq(_, _)
SumSeq(numbers, i) ==
    IF i > Len(numbers) THEN Zero
    ELSE RAdd(numbers[i], SumSeq(numbers, i + 1))

\* mutant: a trade exactly Window minutes old is left out
InWindow_strict(trade, now) == now - trade.timestamp < Window

InWindow(trade, now) == now - trade.timestamp <= Window

calculate_volume_weighted_stock_price(self, now) ==
    LET pastTrades == SelectSeq(self.trades, LAMBDA t : InWindow(t, now))
        totalQuantity ==
            SumSeq([i \in 1..Len(pastTrades) |-> pastTrades[i].quantity], 1)
        totalTradePriceQuantity ==
            SumSeq([i \in 1..Len(pastTrades) |->
                      RMul(pastTrades[i].price, pastTrades[i].quantity)], 1)
    IN  IF totalQuantity = Zero THEN Real(Zero)
        ELSE PyDiv(totalTradePriceQuantity, totalQuantity)

(***************************************************************************)
(* StockMarket.  A method that may raise returns the market after the call *)
(* together with the outcome.                                              *)
(***************************************************************************)
Symbols == {"POP", "GIN"}
\* the order in which stocks.values() lists the stocks (a product and a
\* filter do not depend on it)
SymbolOrder == <<"POP", "GIN">>

\* mutant: a symbol already held keeps its stock (setdefault)
add_stock_keep_first(mkt, stock) ==
    [s \in DOMAIN mkt \cup {stock.symbol} |->
        IF s \in DOMAIN mkt THEN mkt[s] ELSE stock]

add_stock(mkt, stock) ==
    [s \in DOMAIN mkt \cup {stock.symbol} |->
        IF s = stock.symbol THEN stock ELSE mkt[s]]

\* mutant: the indicator is checked after the trade was recorded
market_record_trade_late_check(mkt, now, symbol, quantity, indicator, price) ==
    IF symbol \in DOMAIN mkt
    THEN [stocks |-> [mkt EXCEPT ![symbol] =
                        stock_record_trade(@, now, quantity, indicator, price)],
          result |-> IF Lower(indicator) \notin {"buy", "sell"}
                     THEN Raise("ValueError") ELSE NoneVal]
    ELSE [stocks |-> mkt, result |-> Raise("ValueError")]

\* mutant: the trade is recorded on every stock of the market
market_record_trade_broadcast(mkt, now, symbol, quantity, indicator, price) ==
    IF Lower(indicator) \notin {"buy", "sell"}
    THEN [stocks |-> mkt, result |-> Raise("ValueError")]
    ELSE IF symbol \in DOMAIN mkt
    THEN [stocks |-> [s \in DOMAIN mkt |->
                        stock_record_trade(mkt[s], now, quantity, indicator, price)],
          result |-> NoneVal]
    ELSE [stocks |-> mkt, result |-> Raise("ValueError")]

market_record_trade(mkt, now, symbol, quantity, indicator, price) ==
    IF Lower(indicator) \notin {"buy", "sell"}
    THEN [stocks |-> mkt, result |-> Raise("ValueError")]
    ELSE IF symbol \in DOMAIN mkt
    THEN [stocks |-> [mkt EXCEPT ![symbol] =
                        stock_record_trade(@, now, quantity, indicator, price)],
          result |-> NoneVal]
    ELSE [stocks |-> mkt, result |-> Raise("ValueError")]

RECURSIVE Prod(_, _)
Prod(prices, i) ==
    IF i > Len(prices) THEN One ELSE RMul(prices[i], Prod(prices, i + 1))

\* mutant: only a price of exactly 0 is dropped
KeepPrice_nonzero(price) == price /= Zero

\* the filter of the list comprehension nonZeroPrices
KeepPrice(price) == RLt(Zero, price)

\* mutant: no test of an empty list of prices
calculate_all_share_index_unguarded(mkt, now) ==
    LET keys == SelectSeq(SymbolOrder, LAMBDA s : s \in DOMAIN mkt)
        volumeWeightedPrices ==
            [i \in 1..Len(keys) |->
                calculate_volume_weighted_stock_price(mkt[keys[i]], now).val]
        nonZeroPrices == SelectSeq(volumeWeightedPrices, KeepPrice)
    IN  PyRoot(Prod(nonZeroPrices, 1), Len(nonZeroPrices))

calculate_all_share_index(mkt, now) ==
    LET keys == SelectSeq(SymbolOrder, LAMBDA s : s \in DOMAIN mkt)
        volumeWeightedPrices ==
            [i \in 1..Len(keys) |->
                calculate_volume_weighted_stock_price(mkt[keys[i]], now).val]
        nonZeroPrices == SelectSeq(volumeWeightedPrices, KeepPrice)
    IN  IF nonZeroPrices = <<>> THEN Real(Zero)
        ELSE PyRoot(Prod(nonZeroPrices, 1), Len(nonZeroPrices))


(***************************************************************************)
(* The calls.  ret names the method and its arguments; now is the time the *)
(* call read from the clock (0 when it read none).  Arguments a method     *)
(* does not take are "" and Zero.                                          *)
(***************************************************************************)
Call(op, symbol, quantity, indicator, price, now, result) ==
    [op |-> op, symbol |-> symbol, quantity |-> quantity,
     indicator |-> indicator, price |-> price, now |-> now, result |-> result]

RECURSIVE TradeCount(_, _)
TradeCount(mkt, i) ==
    IF i > Len(SymbolOrder) THEN 0
    ELSE (IF SymbolOrder[i] \in DOMAIN mkt
          THEN Len(mkt[SymbolOrder[i]].trades) ELSE 0) + TradeCount(mkt, i + 1)

NoCall == Call("__init__", "", Zero, "", Zero, 0, NoneVal)
EmptyMarket == [s \in {} |-> Stock(s, "Common", Zero, None, One)]

ReadOps == {"calculate_dividend_yield", "calculate_pe_ratio",
            "calculate_volume_weighted_stock_price", "calculate_all_share_index"}
IsRead(call) == call.op \in ReadOps
SameCall(a, b) == a.op = b.op /\ a.symbol = b.symbol /\ a.price = b.price
\* earlier' at a read and at a call that changes the market
AfterRead == earlier' = IF IsRead(ret) /\ SameCall(ret, ret') THEN ret ELSE NoCall
AfterChange == earlier' = NoCall

\* the bounds on recording: the minutes in which trades happen, and how many
\* trades the market holds
MayRecord == clock <= LastTradeMinute /\ TradeCount(stocks, 1) < MaxTrades

\* StockMarket.add_stock(Stock(symbol, type, lastDividend, fixedDividend, parValue))
AddStock(symbol, type, lastDividend, fixedDividend, parValue) ==
    /\ stocks' = add_stock(stocks,
                    Stock(symbol, type, lastDividend, fixedDividend, parValue))
    /\ ret' = Call("add_stock", symbol, Zero, "", Zero, 0, NoneVal)
    /\ before' = stocks
    /\ AfterChange
    /\ UNCHANGED clock

\* StockMarket.record_trade(symbol, quantity, indicator, price)
MarketRecordTrade(symbol, quantity, indicator, price) ==
    LET out == market_record_trade(stocks, clock, symbol, quantity, indicator, price)
    IN  /\ MayRecord
        /\ stocks' = out.stocks
        /\ ret' = Call("market.record_trade", symbol, quantity, indicator, price,
                       IF Raised(out.result) THEN 0 ELSE clock, out.result)
        /\ before' = stocks
        /\ AfterChange
        /\ UNCHANGED clock

\* Stock.record_trade(quantity, indicator, price) on the Stock held under symbol
StockRecordTrade(symbol, quantity, indicator, price) ==
    /\ symbol \in DOMAIN stocks
    /\ MayRecord
    /\ stocks' = [stocks EXCEPT ![symbol] =
                    stock_record_trade(@, clock, quantity, indicator, price)]
    /\ ret' = Call("stock.record_trade", symbol, quantity, indicator, price,
                   clock, NoneVal)
    /\ before' = stocks
    /\ AfterChange
    /\ UNCHANGED clock

\* Stock.calculate_dividend_yield(price) on the Stock held under symbol
CalcDividendYield(symbol, price) ==
    /\ symbol \in DOMAIN stocks
    /\ ret' = Call("calculate_dividend_yield", symbol, Zero, "", price, 0,
                   calculate_dividend_yield(stocks[symbol], price))
    /\ before' = stocks
    /\ AfterRead
    /\ UNCHANGED <<stocks, clock>>

\* Stock.calculate_pe_ratio(price) on the Stock held under symbol
CalcPeRatio(symbol, price) ==
    /\ symbol \in DOMAIN stocks
    /\ ret' = Call("calculate_pe_ratio", symbol, Zero, "", price, 0,
                   calculate_pe_ratio(stocks[symbol], price))
    /\ before' = stocks
    /\ AfterRead
    /\ UNCHANGED <<stocks, clock>>

\* mutant: the read empties the history it priced
CalcVolumeWeightedStockPrice_draining(symbol) ==
    /\ symbol \in DOMAIN stocks
    /\ ret' = Call("calculate_volume_weighted_stock_price", symbol, Zero, "",
                   Zero, clock,
                   calculate_volume_weighted_stock_price(stocks[symbol], clock))
    /\ stocks' = [stocks EXCEPT ![symbol].trades = <<>>]
    /\ before' = stocks
    /\ AfterRead
    /\ UNCHANGED clock

\* Stock.calculate_volume_weighted_stock_price() on the Stock held under symbol
CalcVolumeWeightedStockPrice(symbol) ==
    /\ symbol \in DOMAIN stocks
    /\ ret' = Call("calculate_volume_weighted_stock_price", symbol, Zero, "",
                   Zero, clock,
                   calculate_volume_weighted_stock_price(stocks[symbol], clock))
    /\ before' = stocks
    /\ AfterRead
    /\ UNCHANGED <<stocks, clock>>

\* StockMarket.calculate_all_share_index()
CalcAllShareIndex ==
    /\ ret' = Call("calculate_all_share_index", "", Zero, "", Zero, clock,
                   calculate_all_share_index(stocks, clock))
    /\ before' = stocks
    /\ AfterRead
    /\ UNCHANGED <<stocks, clock>>

\* a minute passes on the clock datetime.now() reads
Tick ==
    /\ clock < MaxClock
    /\ clock' = clock + 1
    /\ UNCHANGED <<stocks, ret, before, earlier>>


(***************************************************************************)
(* Spec: trading.  The market starts empty (StockMarket.__init__); stocks  *)
(* are added and replaced, trades are recorded through the market and      *)
(* directly on the stocks it holds, and the index is read.                 *)
(***************************************************************************)
Types == {"Common", "Preferred"}
\* "BUY" is a valid indicator in upper case, "hold" is none
Indicators == {"BUY", "hold"}
\* a fixed dividend is given for a Preferred stock
FixedOf(type) == IF type = "Preferred" THEN <<1, 50>> ELSE None

Init ==
    /\ stocks = EmptyMarket
    /\ clock = 0
    /\ ret = NoCall
    /\ before = EmptyMarket
    /\ earlier = NoCall

Next ==
    \/ \E s \in Symbols, t \in Types :
           AddStock(s, t, Num(8), FixedOf(t), Num(100))
    \/ \E s \in Symbols, i \in Indicators :
           MarketRecordTrade(s, Num(2), i, Num(3))
    \/ \E s \in Symbols, i \in Indicators :
           StockRecordTrade(s, Num(2), i, Num(3))
    \/ CalcAllShareIndex
    \/ Tick

Spec == Init /\ [][Next]_vars

(***************************************************************************)
(* SpecMetrics: the metrics over time.  The market holds a Common and a    *)
(* Preferred stock (test.py, setUp); trades are recorded, the clock runs   *)
(* past the window, and the four metrics are read.                         *)
(***************************************************************************)
SeededMarket ==
    add_stock(add_stock(EmptyMarket,
                        Stock("POP", "Common", Num(8), None, Num(100))),
              Stock("GIN", "Preferred", Num(8), <<1, 50>>, Num(100)))

\* quantity and price of the trades: record_trade checks the sign of neither
TradeArgs == {<<Num(1), Num(3)>>, <<Num(2), Num(6)>>, <<Num(-1), Num(-3)>>}

InitMetrics ==
    /\ stocks = SeededMarket
    /\ clock = 0
    /\ ret = NoCall
    /\ before = SeededMarket
    /\ earlier = NoCall

NextMetrics ==
    \/ \E s \in Symbols, a \in TradeArgs :
           MarketRecordTrade(s, a[1], "buy", a[2])
    \/ \E s \in Symbols : CalcVolumeWeightedStockPrice(s)
    \/ CalcAllShareIndex
    \/ \E s \in Symbols : CalcDividendYield(s, Num(100))
    \/ \E s \in Symbols : CalcPeRatio(s, Num(100))
    \/ Tick

SpecMetrics == InitMetrics /\ [][NextMetrics]_vars

(***************************************************************************)
(* SpecCalc: the two metrics that are functions of a price.  One stock of  *)
(* any type and attributes; the metrics are read at any price.             *)
(***************************************************************************)
AllTypes == {"Common", "Preferred", "Other"}
Dividends == {Zero, Num(8), <<23, 100>>}
FixedDividends == {None, Zero, <<1, 50>>}
ParValues == {One, Num(100)}
CalcPrices == {Num(-5), Zero, <<1, 2>>, Num(100)}

InitCalc ==
    /\ \E t \in AllTypes, l \in Dividends, f \in FixedDividends, v \in ParValues :
          /\ t = "Preferred" => f /= None
          /\ stocks = add_stock(EmptyMarket, Stock("POP", t, l, f, v))
    /\ clock = 0
    /\ ret = NoCall
    /\ before = stocks
    /\ earlier = NoCall

NextCalc ==
    \/ \E p \in CalcPrices : CalcDividendYield("POP", p)
    \/ \E p \in CalcPrices : CalcPeRatio("POP", p)

SpecCalc == InitCalc /\ [][NextCalc]_vars

(***************************************************************************)
(* What the properties below are stated with.  Sums and products are taken *)
(* over sets of indexes and of symbols, not along the program's lists.     *)
(***************************************************************************)
RECURSIVE SumSet(_, _)
SumSet(S, f) ==
    IF S = {} THEN Zero
    ELSE LET x == CHOOSE y \in S : TRUE IN RAdd(f[x], SumSet(S \ {x}, f))

RECURSIVE ProdSet(_, _)
ProdSet(S, f) ==
    IF S = {} THEN One
    ELSE LET x == CHOOSE y \in S : TRUE IN RMul(f[x], ProdSet(S \ {x}, f))

RECURSIVE RPow(_, _)
RPow(r, n) == IF n = 0 THEN One ELSE RMul(r, RPow(r, n - 1))

\* v^n for an outcome v: a real, or the positive deg-th root of val
ValuePower(v, n) ==
    IF v.kind = "real" THEN RPow(v.val, n)
    ELSE IF v.kind = "root" /\ v.deg = n THEN v.val
    ELSE None

IsBuyOrSell(indicator) ==
    indicator \in {"buy", "Buy", "BUY", "sell", "Sell", "SELL"}

\* the indexes of the trades at most five minutes old at time now
Recent(trades, now) ==
    {i \in 1..Len(trades) : now - trades[i].timestamp <= 5}

\* the volume-weighted price of the stock held under symbol s, at time now
PriceOf(s, now) == calculate_volume_weighted_stock_price(stocks[s], now).val

Static(stock) ==
    <<stock.symbol, stock.type, stock.lastDividend, stock.fixedDividend,
      stock.parValue>>

(***************************************************************************)
(* C1.  StockMarket.record_trade raises whenever the indicator is neither  *)
(* 'buy' nor 'sell' in any case, and whenever the symbol is not held; a    *)
(* call that raised left every trade history and the mapping as they were. *)
(***************************************************************************)
C1_FailedRecordTradeChangesNothing ==
    ret.op = "market.record_trade" =>
        /\ (~IsBuyOrSell(ret.indicator) \/ ret.symbol \notin DOMAIN before)
              => ret.result = Raise("ValueError")
        /\ Raised(ret.result) => stocks = before

\* a call with indicator "hold" on a held stock that has a trade
C1_Witness ==
    /\ ret.op = "market.record_trade"
    /\ ret.indicator = "hold"
    /\ ret.symbol \in DOMAIN stocks
    /\ stocks[ret.symbol].trades /= <<>>
    /\ Raised(ret.result)

(***************************************************************************)
(* C2.  Stock.record_trade succeeds and appends one trade: the history it  *)
(* found is a prefix of the new one, the new last trade has the given      *)
(* quantity, indicator and price and the time of the call, which is no     *)
(* earlier than the time of any trade before it.                           *)
(***************************************************************************)
C2_StockRecordTradeAppends ==
    ret.op = "stock.record_trade" =>
        LET old == before[ret.symbol].trades
            new == stocks[ret.symbol].trades
            last == new[Len(new)]
        IN  /\ ret.result = NoneVal
            /\ Len(new) = Len(old) + 1
            /\ \A k \in 1..Len(old) : new[k] = old[k]
            /\ last.quantity = ret.quantity
            /\ last.indicator = ret.indicator
            /\ last.price = ret.price
            /\ last.timestamp = ret.now
            /\ last.timestamp <= clock
            /\ \A k \in 1..Len(new) : new[k].timestamp <= last.timestamp

\* a second trade, recorded later than the first, with an unchecked indicator
C2_Witness ==
    /\ ret.op = "stock.record_trade"
    /\ ret.indicator = "hold"
    /\ Len(stocks[ret.symbol].trades) = 2
    /\ stocks[ret.symbol].trades[1].timestamp < stocks[ret.symbol].trades[2].timestamp

(***************************************************************************)
(* C3.  The volume-weighted price is the sum of price * quantity over the  *)
(* sum of quantity, taken over exactly the trades at most five minutes old *)
(* (five minutes old counts); it is 0 when there is no such trade or their *)
(* quantities sum to zero, and nothing is raised.                          *)
(***************************************************************************)
C3_VolumeWeightedPrice ==
    ret.op = "calculate_volume_weighted_stock_price" =>
        LET trades == stocks[ret.symbol].trades
            recent == Recent(trades, ret.now)
            q == SumSet(recent, [i \in recent |-> trades[i].quantity])
            pq == SumSet(recent, [i \in recent |->
                                    RMul(trades[i].price, trades[i].quantity)])
        IN  /\ ret.result.kind = "real"
            /\ IF recent = {} \/ q = Zero THEN ret.result.val = Zero
               ELSE RMul(ret.result.val, q) = pq

\* one trade exactly five minutes old, which counts, and one older, which
\* does not
C3_Witness ==
    /\ ret.op = "calculate_volume_weighted_stock_price"
    /\ LET trades == stocks[ret.symbol].trades
       IN  /\ \E i \in 1..Len(trades) : ret.now - trades[i].timestamp = 5
           /\ \E i \in 1..Len(trades) : ret.now - trades[i].timestamp > 5
    /\ ret.result.val /= Zero

(***************************************************************************)
(* C4, as claimed.  The index drops exactly the volume-weighted prices     *)
(* that are 0 and is the geometric mean of all the others: with n others,  *)
(* its n-th power is their product.                                        *)
(***************************************************************************)
C4_DropsExactlyZero ==
    ret.op = "calculate_all_share_index" =>
        LET kept == {s \in DOMAIN stocks : PriceOf(s, ret.now) /= Zero}
            n == Cardinality(kept)
        IN  n > 0 =>
              ValuePower(ret.result, n) =
                  ProdSet(kept, [s \in kept |-> PriceOf(s, ret.now)])

(***************************************************************************)
(* C4, amended.  The index drops exactly the volume-weighted prices that   *)
(* are 0 or negative and is the geometric mean of the positive ones: with  *)
(* n positive ones, its n-th power is their product.                       *)
(***************************************************************************)
C4_DropsZeroAndNegative ==
    ret.op = "calculate_all_share_index" =>
        LET kept == {s \in DOMAIN stocks : RLt(Zero, PriceOf(s, ret.now))}
            n == Cardinality(kept)
        IN  n > 0 =>
              ValuePower(ret.result, n) =
                  ProdSet(kept, [s \in kept |-> PriceOf(s, ret.now)])

\* one stock with a negative price, dropped, beside one with a positive price
C4_Witness ==
    /\ ret.op = "calculate_all_share_index"
    /\ \E s \in DOMAIN stocks : RLt(PriceOf(s, ret.now), Zero)
    /\ \E s \in DOMAIN stocks :
          /\ RLt(Zero, PriceOf(s, ret.now))
          /\ ret.result = Real(PriceOf(s, ret.now))

(***************************************************************************)
(* C5.  When no stock of the market has a nonzero volume-weighted price,   *)
(* the index is 0 and nothing is raised.                                   *)
(***************************************************************************)
C5_IndexOfNoPricesIsZero ==
    (/\ ret.op = "calculate_all_share_index"
     /\ \A s \in DOMAIN stocks : PriceOf(s, ret.now) = Zero)
        => ret.result = Real(Zero)

\* the index read when every trade of the market is older than five minutes
C5_Witness ==
    /\ ret.op = "calculate_all_share_index"
    /\ \E s \in DOMAIN stocks : stocks[s].trades /= <<>>
    /\ \A s \in DOMAIN stocks : Recent(stocks[s].trades, ret.now) = {}
    /\ ret.result = Real(Zero)

(***************************************************************************)
(* C6, as claimed.  A read called twice with the same arguments, nothing   *)
(* added or recorded between the calls, gives the same result both times.  *)
(***************************************************************************)
C6_ReadTwiceSameResult ==
    (IsRead(ret) /\ IsRead(earlier) /\ SameCall(earlier, ret))
        => ret.result = earlier.result

\* the stocks whose trades a read looks at
ReadsTradesOf(call) ==
    IF call.op = "calculate_volume_weighted_stock_price" THEN {call.symbol}
    ELSE IF call.op = "calculate_all_share_index" THEN DOMAIN stocks
    ELSE {}

\* no trade a read looks at is at most five minutes old at one of the two
\* times and older at the other
SameRecentTrades(a, b) ==
    \A s \in ReadsTradesOf(b) :
        Recent(stocks[s].trades, a.now) = Recent(stocks[s].trades, b.now)

(***************************************************************************)
(* C6, amended.  A read called twice with the same arguments, nothing      *)
(* added or recorded between the calls, gives the same result both times   *)
(* provided no trade it looks at has grown older than five minutes between *)
(* the calls (the dividend yield and the P/E ratio look at no trade).      *)
(***************************************************************************)
C6_ReadTwiceSameWindow ==
    (/\ IsRead(ret) /\ IsRead(earlier) /\ SameCall(earlier, ret)
     /\ SameRecentTrades(earlier, ret))
        => ret.result = earlier.result

\* the price of a stock read twice, minutes apart, with a trade in the window
C6_Witness ==
    /\ ret.op = "calculate_volume_weighted_stock_price"
    /\ IsRead(earlier) /\ SameCall(earlier, ret)
    /\ earlier.now < ret.now
    /\ SameRecentTrades(earlier, ret)
    /\ ret.result.val /= Zero

(***************************************************************************)
(* C7.  The dividend yield raises for a price <= 0 whatever the type; for  *)
(* a price > 0 it is lastDividend / price on a Common stock and            *)
(* fixedDividend * parValue / price on a Preferred one; the call changes   *)
(* nothing.                                                                *)
(***************************************************************************)
C7_DividendYield ==
    ret.op = "calculate_dividend_yield" =>
        LET stock == stocks[ret.symbol]
        IN  /\ RLe(ret.price, Zero) => ret.result = Raise("ValueError")
            /\ (RLt(Zero, ret.price) /\ stock.type = "Common") =>
                  /\ ret.result.kind = "real"
                  /\ RMul(ret.result.val, ret.price) = stock.lastDividend
            /\ (RLt(Zero, ret.price) /\ stock.type = "Preferred") =>
                  /\ ret.result.kind = "real"
                  /\ RMul(ret.result.val, ret.price) =
                        RMul(stock.fixedDividend, stock.parValue)
            /\ stocks = before

\* a Preferred stock whose yield differs from lastDividend / price
C7_Witness ==
    /\ ret.op = "calculate_dividend_yield"
    /\ stocks[ret.symbol].type = "Preferred"
    /\ RLt(Zero, ret.price)
    /\ ret.result.kind = "real"
    /\ RMul(ret.result.val, ret.price) /= stocks[ret.symbol].lastDividend

(***************************************************************************)
(* C8.  The P/E ratio never raises: it is infinite when lastDividend is 0  *)
(* and price / lastDividend otherwise, for any price.                      *)
(***************************************************************************)
C8_PeRatio ==
    ret.op = "calculate_pe_ratio" =>
        LET stock == stocks[ret.symbol]
        IN  /\ ~Raised(ret.result)
            /\ stock.lastDividend = Zero => ret.result = Inf
            /\ stock.lastDividend /= Zero =>
                  /\ ret.result.kind = "real"
                  /\ RMul(ret.result.val, stock.lastDividend) = ret.price

\* a negative price on a stock that paid no dividend
C8_Witness ==
    /\ ret.op = "calculate_pe_ratio"
    /\ stocks[ret.symbol].lastDividend = Zero
    /\ RLt(ret.price, Zero)
    /\ ret.result = Inf

(***************************************************************************)
(* C9.  add_stock never fails; afterwards the symbol of the stock maps to  *)
(* that stock, which replaces a stock held under the symbol together with  *)
(* its trades; every other symbol maps to what it mapped to, and every key *)
(* is the symbol of the one stock it maps to.                              *)
(***************************************************************************)
C9_AddStockReplaces ==
    [][\A s \in Symbols, t \in Types :
          AddStock(s, t, Num(8), FixedOf(t), Num(100)) =>
              /\ ret'.result = NoneVal
              /\ DOMAIN stocks' = DOMAIN stocks \cup {s}
              /\ stocks'[s] = [symbol |-> s, type |-> t, lastDividend |-> Num(8),
                               fixedDividend |-> FixedOf(t),
                               parValue |-> Num(100), trades |-> <<>>]
              /\ \A o \in DOMAIN stocks \ {s} : stocks'[o] = stocks[o]
              /\ \A k \in DOMAIN stocks' : stocks'[k].symbol = k
              /\ calculate_all_share_index(stocks', clock) =
                    calculate_all_share_index(
                        [o \in DOMAIN stocks \ {s} |-> stocks[o]], clock)]_vars

\* a stock with a trade is replaced while another stock holds a trade
C9_Witness ==
    /\ ret.op = "add_stock"
    /\ ret.symbol \in DOMAIN before
    /\ before[ret.symbol].trades /= <<>>
    /\ stocks[ret.symbol].trades = <<>>
    /\ \E o \in DOMAIN stocks \ {ret.symbol} : stocks[o].trades /= <<>>

(***************************************************************************)
(* C10.  A StockMarket.record_trade that succeeds appends one trade to the *)
(* stock held under the symbol and changes nothing else: not the trades of *)
(* another stock, not the attributes of any stock, not the mapping.        *)
(***************************************************************************)
C10_RecordTradeFrame ==
    (ret.op = "market.record_trade" /\ ~Raised(ret.result)) =>
        /\ DOMAIN stocks = DOMAIN before
        /\ ret.symbol \in DOMAIN before
        /\ \A o \in DOMAIN before \ {ret.symbol} : stocks[o] = before[o]
        /\ Static(stocks[ret.symbol]) = Static(before[ret.symbol])
        /\ LET old == before[ret.symbol].trades
               new == stocks[ret.symbol].trades
           IN  /\ Len(new) = Len(old) + 1
               /\ \A k \in 1..Len(old) : new[k] = old[k]

\* a trade recorded on one stock while the other holds a trade
C10_Witness ==
    /\ ret.op = "market.record_trade"
    /\ ret.result = NoneVal
    /\ \E o \in DOMAIN stocks \ {ret.symbol} : stocks[o].trades /= <<>>
====
